---- MODULE Spec2Model ----
(***************************************************************************)
(* Model of the historical sync orchestrator of ponder                     *)
(* (packages/core/src/sync-historical/service.ts): the per-source progress *)
(* trackers, the block-callback map, the task queue and its workers, the   *)
(* block progress tracker and the emitted events.                          *)
(*                                                                         *)
(* The collaborators whose code is not part of service.ts (interval        *)
(* algebra, ProgressTracker, BlockProgressTracker, the queue, debounce,    *)
(* validateHistoricalBlockRange, the sync store) are modelled from their   *)
(* specified behaviour.                                                    *)
(***************************************************************************)
EXTENDS Integers, Sequences, FiniteSets, Bags, TLC

\* ------------------------------------------------------------------ bounds
\* Number of worker failures (RPC / store errors) allowed in one run.
MaxFailures == 2

\* ------------------------------------------------------- program constants
\* Number.MAX_SAFE_INTEGER; only the order of MAX_SAFE_INTEGER - n matters,
\* so it is represented by the largest integer of the checker.
MAX_SAFE_INTEGER == 2147483647
\* Math.min() of an empty list is +Infinity: greater than any block number.
Infinity == 1000000
\* Absent optional value (endBlock, maxBlockRange).
undefined == -1

\* ------------------------------------------------------------ small helpers
SetMin(S) == CHOOSE x \in S : \A y \in S : x <= y
SetMax(S) == CHOOSE x \in S : \A y \in S : x >= y
Range(f) == {f[i] : i \in DOMAIN f}

RECURSIVE SortedSeq(_)
SortedSeq(S) ==
    IF S = {} THEN <<>> ELSE <<SetMin(S)>> \o SortedSeq(S \ {SetMin(S)})

RECURSIVE Count(_, _)
Count(seq, x) ==
    IF seq = <<>> THEN 0
    ELSE (IF Head(seq) = x THEN 1 ELSE 0) + Count(Tail(seq), x)

\* ---------------------------------------------------------- interval algebra
\* A canonical interval set is represented by the set of block numbers it
\* covers; Intervals gives back the sorted, disjoint, maximally merged list.
Blocks(interval) == interval[1] .. interval[2]

RECURSIVE BlocksOf(_)
BlocksOf(intervals) ==
    IF intervals = <<>> THEN {}
    ELSE Blocks(Head(intervals)) \cup BlocksOf(Tail(intervals))

RECURSIVE Intervals(_)
Intervals(S) ==
    IF S = {} THEN <<>>
    ELSE LET a == SetMin(S)
             b == SetMax({y \in S : (a .. y) \subseteq S})
         IN  <<(<<a, b>>)>> \o Intervals(S \ (a .. b))

intervalDifference(A, B) == A \ B
intervalIntersection(A, B) == A \cap B
intervalSum(A) == Cardinality(A)

\* getChunks of one interval: consecutive pieces of maxChunkSize blocks.
RECURSIVE ChunkInterval(_, _, _)
ChunkInterval(a, b, maxChunkSize) ==
    IF a > b THEN <<>>
    ELSE LET e == IF a + maxChunkSize - 1 < b THEN a + maxChunkSize - 1 ELSE b
         IN  <<(<<a, e>>)>> \o ChunkInterval(e + 1, b, maxChunkSize)

RECURSIVE ChunkAll(_, _)
ChunkAll(intervals, maxChunkSize) ==
    IF intervals = <<>> THEN <<>>
    ELSE ChunkInterval(Head(intervals)[1], Head(intervals)[2], maxChunkSize)
            \o ChunkAll(Tail(intervals), maxChunkSize)

getChunks(S, maxChunkSize) == ChunkAll(Intervals(S), maxChunkSize)

\* ------------------------------------------------------------ ProgressTracker
NewProgressTracker(target, completed) ==
    [target |-> target, completed |-> completed \cap Blocks(target)]

getRequired(tracker) == intervalDifference(Blocks(tracker.target), tracker.completed)

getCheckpoint(tracker) ==
    LET start == tracker.target[1]
    IN  IF start \notin tracker.completed THEN start - 1
        ELSE SetMax({c \in tracker.completed : (start .. c) \subseteq tracker.completed})

\* addCompletedInterval: the tracker after the merge, and the result record.
addCompletedInterval(tracker, interval) ==
    LET after == [tracker EXCEPT !.completed =
                      @ \cup (Blocks(interval) \cap Blocks(tracker.target))]
        prevCheckpoint == getCheckpoint(tracker)
        newCheckpoint == getCheckpoint(after)
    IN  [tracker |-> after,
         isUpdated |-> newCheckpoint > prevCheckpoint,
         prevCheckpoint |-> prevCheckpoint,
         newCheckpoint |-> newCheckpoint]

\* ------------------------------------------------- sources and configurations
\* What the orchestrator is constructed with: the sources, the network, the
\* content of the sync store and the logs of the chain. One configuration is
\* drawn at construction.
LogSource(id, startBlock, endBlock, maxBlockRange) ==
    [id |-> id, type |-> "log", startBlock |-> startBlock, endBlock |-> endBlock,
     maxBlockRange |-> maxBlockRange, interval |-> undefined, offset |-> undefined]
FactorySource(id, startBlock, endBlock, maxBlockRange) ==
    [id |-> id, type |-> "factory", startBlock |-> startBlock, endBlock |-> endBlock,
     maxBlockRange |-> maxBlockRange, interval |-> undefined, offset |-> undefined]
BlockSource(id, startBlock, endBlock, interval, offset) ==
    [id |-> id, type |-> "block", startBlock |-> startBlock, endBlock |-> endBlock,
     maxBlockRange |-> undefined, interval |-> interval, offset |-> offset]
FunctionCallSource(id, startBlock, endBlock, maxBlockRange) ==
    [id |-> id, type |-> "function", startBlock |-> startBlock, endBlock |-> endBlock,
     maxBlockRange |-> maxBlockRange, interval |-> undefined, offset |-> undefined]

RpcLog(blockNumber, logIndex, transactionHash) ==
    [blockNumber |-> blockNumber, logIndex |-> logIndex,
     transactionHash |-> transactionHash]

Log(blockNumber, logIndex) == RpcLog(blockNumber, logIndex, "0xa")

Configs ==
    {"twoLogs", "factoryLateCache", "factoryFresh", "traceAndLog", "blockFilter",
     "logCached", "allCached", "partlyCached", "factoryLogCached"}

Sources(c) ==
    CASE c = "twoLogs" ->
            <<LogSource("X", 0, undefined, undefined), LogSource("Y", 0, 2, undefined),
              LogSource("Z", 9, undefined, undefined)>>
      [] c = "factoryLateCache" ->
            <<FactorySource("F", 0, 3, undefined), LogSource("X", 0, undefined, undefined)>>
      [] c = "factoryFresh" ->
            <<FactorySource("F", 0, 3, 2)>>
      [] c = "traceAndLog" ->
            <<FunctionCallSource("T", 0, 2, undefined), LogSource("X", 0, 2, undefined)>>
      [] c = "blockFilter" ->
            <<BlockSource("B", 0, undefined, 2, 1),
              FactorySource("G", 7, undefined, undefined)>>
      [] c = "logCached" ->
            <<LogSource("X", 0, 2, undefined)>>
      [] c = "allCached" ->
            <<LogSource("X", 0, 2, undefined), FactorySource("F", 1, undefined, undefined),
              BlockSource("B", 0, 3, 2, 0), LogSource("Z", 5, undefined, undefined)>>
      [] c = "partlyCached" ->
            <<LogSource("X", 0, undefined, 2), FunctionCallSource("T", 0, 3, undefined),
              BlockSource("B", 0, 3, 2, 0)>>
      [] c = "factoryLogCached" ->
            <<FactorySource("F", 0, 3, undefined)>>

\* The network (defaultMaxBlockRange, the largest maxHistoricalTaskConcurrency
\* tried) and the finalized block handed to setup().
NetworkOf(defaultMaxBlockRange, finalizedBlockNumber) ==
    [defaultMaxBlockRange |-> defaultMaxBlockRange,
     maxHistoricalTaskConcurrency |-> 2,
     finalizedBlockNumber |-> finalizedBlockNumber]

Network(c) ==
    CASE c = "twoLogs" -> NetworkOf(3, 4)
      [] c = "factoryLateCache" -> NetworkOf(4, 4)
      [] c = "factoryFresh" -> NetworkOf(4, 3)
      [] c = "traceAndLog" -> NetworkOf(3, 3)
      [] c = "blockFilter" -> NetworkOf(5, 4)
      [] c = "logCached" -> NetworkOf(3, 3)
      [] c = "allCached" -> NetworkOf(3, 3)
      [] c = "partlyCached" -> NetworkOf(3, 4)
      [] c = "factoryLogCached" -> NetworkOf(4, 3)

\* Completed intervals the sync store holds before the run, per tracker kind
\* and source (as sets of covered blocks).
CachedIntervals(c, kind, id) ==
    CASE c = "factoryLateCache" /\ kind = "factoryChildAddress" /\ id = "F" -> 2 .. 3
      [] c = "logCached" /\ kind = "logFilter" /\ id = "X" -> 0 .. 2
      [] c = "allCached" /\ id = "X" -> 0 .. 2
      [] c = "allCached" /\ id \in {"F", "B"} -> 0 .. 3
      [] c = "partlyCached" /\ id = "X" -> 2 .. 2
      [] c = "partlyCached" /\ id = "T" -> 0 .. 0
      [] c = "partlyCached" /\ id = "B" -> 0 .. 1
      [] c = "factoryLogCached" /\ kind = "factoryLogFilter" /\ id = "F" -> 0 .. 3
      [] OTHER -> {}

\* Blocks the sync store holds before the run.
CachedBlocks(c) == IF c = "blockFilter" THEN {3} ELSE {}

\* Logs on the chain: kind "factoryChildAddress" are a factory's child
\* creation events, the other kinds the events of the source itself.
ChainLogs(c, kind, id) ==
    CASE c = "twoLogs" /\ id = "X" -> {Log(1, 0)}
      [] c = "twoLogs" /\ id = "Y" -> {Log(2, 0), Log(2, 1)}
      [] c = "factoryLateCache" /\ id = "F" /\ kind = "factoryLogFilter" -> {Log(3, 0)}
      [] c = "factoryFresh" /\ id = "F" /\ kind = "factoryChildAddress" -> {Log(1, 0)}
      [] c = "factoryFresh" /\ id = "F" /\ kind = "factoryLogFilter" -> {Log(2, 0)}
      [] c = "factoryLogCached" /\ id = "F" /\ kind = "factoryChildAddress" -> {Log(1, 0)}
      [] OTHER -> {}

\* -------------------------------------------------------------------- state
VARIABLES
    cfg,                          \* the configuration (sources, network, store, chain)
    concurrency,                  \* network.maxHistoricalTaskConcurrency
    phase,                        \* "constructed", "setup" or "started"
    progressTrackers,             \* <<tracker kind, source id>> -> ProgressTracker
    blockProgressTracker,         \* pending sequence, completed blocks, frontier
    blockCallbacks,               \* block number -> sequence of callbacks
    blockTasksEnqueuedCheckpoint,
    queue,                        \* queued tasks, in insertion order
    isPaused,                     \* the queue is not dispatching
    inflight,                     \* slot -> the worker running in it
    isShuttingDown,
    failures,                     \* worker failures so far
    insertCalls,                  \* bag of the sync store's interval inserts
    storeBlocks,                  \* blocks the sync store holds
    syncCompleteCount,            \* syncComplete events emitted
    debounced,                    \* checkpoint waiting in the debouncer
    emitted,                      \* historicalCheckpoint events, in order
    blockTasksCreated,            \* bag of block numbers handed to BLOCK tasks
    retried,                      \* tasks onError has put back on the queue
    applied,                      \* a function applied on its own: input and result
    clock                         \* wall clock and timer of the checkpoint debouncer

vars == <<cfg, concurrency, phase, progressTrackers, blockProgressTracker,
          blockCallbacks, blockTasksEnqueuedCheckpoint, queue, isPaused, inflight,
          isShuttingDown, failures, insertCalls, storeBlocks, syncCompleteCount,
          debounced, emitted, blockTasksCreated, retried, applied, clock>>

NoWorker == [pc |-> "idle"]
NoCheckpoint == [blockNumber |-> undefined, blockTimestamp |-> undefined]

\* The orchestrator after construction.
Constructed ==
    /\ cfg \in Configs
    /\ concurrency \in 1 .. Network(cfg).maxHistoricalTaskConcurrency
    /\ phase = "constructed"
    /\ progressTrackers = <<>>
    /\ blockProgressTracker = [pendingBlocks |-> <<>>, completedBlocks |-> {},
                               frontier |-> undefined]
    /\ blockCallbacks = <<>>
    /\ blockTasksEnqueuedCheckpoint = 0
    /\ queue = <<>>
    /\ isPaused = TRUE
    /\ inflight = [slot \in 1 .. concurrency |-> NoWorker]
    /\ isShuttingDown = FALSE
    /\ failures = 0
    /\ insertCalls = EmptyBag
    /\ storeBlocks = CachedBlocks(cfg)
    /\ syncCompleteCount = 0
    /\ debounced = NoCheckpoint
    /\ emitted = <<>>
    /\ blockTasksCreated = EmptyBag
    /\ retried = {}

NotApplied == [fn |-> "none"]
NoClock == [now |-> 0, timer |-> undefined, lastPassed |-> NoCheckpoint,
            emittedAt |-> <<>>]

Init ==
    /\ Constructed
    /\ applied = NotApplied
    /\ clock = NoClock

\* ---------------------------------------------------------------- the queue
\* Mutant: every task gets the same priority.
Priority_Constant(block) == MAX_SAFE_INTEGER

Priority(block) == MAX_SAFE_INTEGER - block

\* Mutant: an interval task gets its priority from its last block.
IntervalTask_PriorityByEnd(kind, id, fromBlock, toBlock) ==
    [kind |-> kind, source |-> id, fromBlock |-> fromBlock, toBlock |-> toBlock,
     priority |-> Priority(toBlock)]

IntervalTask(kind, id, fromBlock, toBlock) ==
    [kind |-> kind, source |-> id, fromBlock |-> fromBlock, toBlock |-> toBlock,
     priority |-> Priority(fromBlock)]

BlockTask(blockNumber, callbacks) ==
    [kind |-> "BLOCK", blockNumber |-> blockNumber, callbacks |-> callbacks,
     priority |-> Priority(blockNumber)]

addTask(q, task) == Append(q, task)

RECURSIVE addTasks(_, _, _, _)
addTasks(q, kind, id, chunks) ==
    IF chunks = <<>> THEN q
    ELSE addTasks(addTask(q, IntervalTask(kind, id, Head(chunks)[1], Head(chunks)[2])),
                  kind, id, Tail(chunks))

\* The task the queue runs next: highest priority, first added among equals.
NextTaskIndex(q) ==
    CHOOSE i \in 1 .. Len(q) :
        /\ \A j \in 1 .. Len(q) : q[j].priority <= q[i].priority
        /\ \A j \in 1 .. (i - 1) : q[j].priority < q[i].priority

RemoveAt(q, i) == SubSeq(q, 1, i - 1) \o SubSeq(q, i + 1, Len(q))

QueueSize == Len(queue)
QueuePending == Cardinality({slot \in DOMAIN inflight : inflight[slot].pc # "idle"})

\* ------------------------------------------------------------- setup()
\* validateHistoricalBlockRange: the effective range of a source.
validateHistoricalBlockRange(source, finalizedBlockNumber) ==
    [isHistoricalSyncRequired |-> source.startBlock <= finalizedBlockNumber,
     startBlock |-> source.startBlock,
     endBlock |-> IF source.endBlock = undefined \/ source.endBlock > finalizedBlockNumber
                  THEN finalizedBlockNumber ELSE source.endBlock]

\* Intervals of a tracker kind and source recorded in the sync store: those
\* held before the run and those inserted since.
StoreIntervals(kind, id) ==
    CachedIntervals(cfg, kind, id) \cup
    UNION {Blocks(<<call.startBlock, call.endBlock>>) :
             call \in {x \in BagToSet(insertCalls) : x.kind = kind /\ x.source = id}}

SourceMaxBlockRange(source) ==
    IF source.maxBlockRange = undefined THEN Network(cfg).defaultMaxBlockRange
    ELSE source.maxBlockRange

SetTracker(trackers, kind, id, tracker) == (<<kind, id>> :> tracker) @@ trackers

\* Mutant: setup() ignores the intervals the store already holds.
RestoredTracker_IgnoresStore(kind, source, range) ==
    NewProgressTracker(<<range.startBlock, range.endBlock>>, {})

\* One tracker kind of one source: the tracker restored from the store.
RestoredTracker(kind, source, range) ==
    NewProgressTracker(<<range.startBlock, range.endBlock>>, StoreIntervals(kind, source.id))

\* Mutant: a skipped source gets a tracker with everything up to the finalized
\* block required.
SkippedTracker_NothingCompleted(range, finalizedBlockNumber) ==
    NewProgressTracker(<<0, finalizedBlockNumber>>, {})

SkippedTracker(range, finalizedBlockNumber) ==
    NewProgressTracker(<<range.startBlock, finalizedBlockNumber>>,
                       range.startBlock .. finalizedBlockNumber)

\* Mutant: setup() enqueues every required factory log filter interval.
MissingFactoryLogFilterIntervals_All(requiredFactoryLogFilter, requiredFactoryChildAddress) ==
    requiredFactoryLogFilter

\* The factory log filter intervals setup() enqueues itself.
MissingFactoryLogFilterIntervals(requiredFactoryLogFilter, requiredFactoryChildAddress) ==
    intervalDifference(requiredFactoryLogFilter, requiredFactoryChildAddress)

\* setup() for one source: st is [trackers, queue].
SetupSource(st, source) ==
    LET finalized == Network(cfg).finalizedBlockNumber
        range == validateHistoricalBlockRange(source, finalized)
        simple(kind, taskKind, maxChunkSize) ==
            IF ~range.isHistoricalSyncRequired
            THEN [st EXCEPT !.trackers =
                      SetTracker(@, kind, source.id, SkippedTracker(range, finalized))]
            ELSE LET tracker == RestoredTracker(kind, source, range)
                 IN  [trackers |-> SetTracker(st.trackers, kind, source.id, tracker),
                      queue |-> addTasks(st.queue, taskKind, source.id,
                                         getChunks(getRequired(tracker), maxChunkSize))]
    IN  CASE source.type = "log" ->
                simple("logFilter", "LOG_FILTER", SourceMaxBlockRange(source))
          [] source.type = "block" ->
                simple("blockFilter", "BLOCK_FILTER", Network(cfg).defaultMaxBlockRange)
          [] source.type = "function" ->
                simple("traceFilter", "TRACE_FILTER", SourceMaxBlockRange(source))
          [] source.type = "factory" ->
                IF ~range.isHistoricalSyncRequired
                THEN [st EXCEPT !.trackers =
                          SetTracker(SetTracker(@, "factoryChildAddress", source.id,
                                                SkippedTracker(range, finalized)),
                                     "factoryLogFilter", source.id,
                                     SkippedTracker(range, finalized))]
                ELSE LET child == RestoredTracker("factoryChildAddress", source, range)
                         logs == RestoredTracker("factoryLogFilter", source, range)
                         q1 == addTasks(st.queue, "FACTORY_CHILD_ADDRESS", source.id,
                                        getChunks(getRequired(child),
                                                  SourceMaxBlockRange(source)))
                         missing == MissingFactoryLogFilterIntervals(getRequired(logs),
                                                                     getRequired(child))
                     IN  [trackers |-> SetTracker(SetTracker(st.trackers,
                                           "factoryChildAddress", source.id, child),
                                           "factoryLogFilter", source.id, logs),
                          queue |-> addTasks(q1, "FACTORY_LOG_FILTER", source.id,
                                             getChunks(missing, SourceMaxBlockRange(source)))]

RECURSIVE SetupSources(_, _)
SetupSources(st, sources) ==
    IF sources = <<>> THEN st
    ELSE SetupSources(SetupSource(st, Head(sources)), Tail(sources))

Setup ==
    /\ phase = "constructed"
    /\ LET st == SetupSources([trackers |-> progressTrackers, queue |-> queue],
                              Sources(cfg))
       IN  /\ progressTrackers' = st.trackers
           /\ queue' = st.queue
    /\ isShuttingDown' = FALSE
    /\ blockTasksEnqueuedCheckpoint' = 0
    /\ phase' = "setup"
    /\ UNCHANGED <<cfg, applied, clock, concurrency, blockProgressTracker, blockCallbacks, isPaused,
                   inflight, failures, insertCalls, storeBlocks, syncCompleteCount,
                   debounced, emitted, blockTasksCreated, retried>>

\* ------------------------------------------------------------ start(), kill()
Start ==
    /\ phase = "setup"
    /\ syncCompleteCount' = IF QueueSize = 0 THEN syncCompleteCount + 1
                            ELSE syncCompleteCount
    /\ isPaused' = FALSE
    /\ phase' = "started"
    /\ UNCHANGED <<cfg, applied, clock, concurrency, progressTrackers, blockProgressTracker,
                   blockCallbacks, blockTasksEnqueuedCheckpoint, queue, inflight,
                   isShuttingDown, failures, insertCalls, storeBlocks, debounced,
                   emitted, blockTasksCreated, retried>>

Kill ==
    /\ phase = "started"
    /\ isShuttingDown' = TRUE
    /\ isPaused' = TRUE
    /\ queue' = <<>>
    /\ phase' = "killed"
    /\ UNCHANGED <<cfg, applied, clock, concurrency, progressTrackers, blockProgressTracker,
                   blockCallbacks, blockTasksEnqueuedCheckpoint, inflight, failures,
                   insertCalls, storeBlocks, syncCompleteCount, debounced, emitted,
                   blockTasksCreated, retried>>

\* ------------------------------------------------------- BlockProgressTracker
\* The chain's timestamp of a block (consecutive blocks may share one).
BlockTimestamp(blockNumber) == 1000 + 12 * ((blockNumber + 1) \div 2)

\* addPendingBlocks rejects a block that is not above every pending block.
addPendingBlocksThrows(bpt, blockNumbers) ==
    /\ blockNumbers # <<>>
    /\ bpt.pendingBlocks # <<>>
    /\ blockNumbers[1] <= bpt.pendingBlocks[Len(bpt.pendingBlocks)]

addPendingBlocks(bpt, blockNumbers) ==
    [bpt EXCEPT !.pendingBlocks = @ \o blockNumbers]

\* Mutant: the frontier is the block that has just completed.
addCompletedBlock_LatestBlock(bpt, blockNumber) ==
    [bpt |-> [pendingBlocks |-> SelectSeq(bpt.pendingBlocks, LAMBDA n : n # blockNumber),
              completedBlocks |-> bpt.completedBlocks \cup {blockNumber},
              frontier |-> blockNumber],
     checkpoint |-> [blockNumber |-> blockNumber,
                     blockTimestamp |-> BlockTimestamp(blockNumber)]]

\* addCompletedBlock: the tracker afterwards and the frontier it reports
\* (NoCheckpoint when the frontier has not advanced).
addCompletedBlock(bpt, blockNumber) ==
    LET pending == SelectSeq(bpt.pendingBlocks, LAMBDA n : n # blockNumber)
        completed == bpt.completedBlocks \cup {blockNumber}
        safe == IF pending = <<>> THEN completed
                ELSE {n \in completed : n < pending[1]}
        advanced == safe # {} /\ (bpt.frontier = undefined \/ SetMax(safe) > bpt.frontier)
    IN  [bpt |-> [pendingBlocks |-> pending, completedBlocks |-> completed,
                  frontier |-> IF advanced THEN SetMax(safe) ELSE bpt.frontier],
         checkpoint |-> IF advanced
                        THEN [blockNumber |-> SetMax(safe),
                              blockTimestamp |-> BlockTimestamp(SetMax(safe))]
                        ELSE NoCheckpoint]

\* --------------------------------------------------------- enqueueBlockTasks
AllTrackers(trackers) == {trackers[k] : k \in DOMAIN trackers}

blockTasksCanBeEnqueuedTo(trackers) ==
    LET checkpoints == {getCheckpoint(t) :
                          t \in {i \in AllTrackers(trackers) : getRequired(i) # {}}}
    IN  IF checkpoints = {} THEN Infinity ELSE SetMin(checkpoints)

\* Mutant: every registered block is enqueued, whatever the checkpoints.
newBlocks_Ungated(callbacks, canBeEnqueuedTo) == DOMAIN callbacks

newBlocks(callbacks, canBeEnqueuedTo) ==
    {blockNumber \in DOMAIN callbacks : blockNumber <= canBeEnqueuedTo}

RECURSIVE addBlockTasks(_, _, _)
addBlockTasks(q, callbacks, blockNumbers) ==
    IF blockNumbers = <<>> THEN q
    ELSE addBlockTasks(addTask(q, BlockTask(Head(blockNumbers),
                                            callbacks[Head(blockNumbers)])),
                       callbacks, Tail(blockNumbers))

\* Mutant: enqueueBlockTasks goes ahead whatever the checkpoint it computes.
enqueueBlockTasks_NoGuard(trackers, callbacks, enqueuedCheckpoint, q, bpt, created) ==
    LET canBeEnqueuedTo == blockTasksCanBeEnqueuedTo(trackers)
        blocks == SortedSeq(newBlocks(callbacks, canBeEnqueuedTo))
    IN  IF addPendingBlocksThrows(bpt, blocks)
        THEN [threw |-> TRUE, blockCallbacks |-> callbacks,
              checkpoint |-> enqueuedCheckpoint, queue |-> q,
              bpt |-> bpt, created |-> created]
        ELSE [threw |-> FALSE,
              blockCallbacks |-> [n \in DOMAIN callbacks \ Range(blocks) |->
                                     callbacks[n]],
              checkpoint |-> canBeEnqueuedTo,
              queue |-> addBlockTasks(q, callbacks, blocks),
              bpt |-> addPendingBlocks(bpt, blocks),
              created |-> created (+) SetToBag(Range(blocks))]

\* The effect of enqueueBlockTasks on the state it touches; threw is set when
\* addPendingBlocks rejects the blocks (nothing has been changed then).
enqueueBlockTasks(trackers, callbacks, enqueuedCheckpoint, q, bpt, created) ==
    LET canBeEnqueuedTo == blockTasksCanBeEnqueuedTo(trackers)
        blocks == SortedSeq(newBlocks(callbacks, canBeEnqueuedTo))
        unchanged == [threw |-> FALSE, blockCallbacks |-> callbacks,
                      checkpoint |-> enqueuedCheckpoint, queue |-> q,
                      bpt |-> bpt, created |-> created]
    IN  IF ~(canBeEnqueuedTo > enqueuedCheckpoint) THEN unchanged
        ELSE IF addPendingBlocksThrows(bpt, blocks)
             THEN [unchanged EXCEPT !.threw = TRUE]
             ELSE [threw |-> FALSE,
                   blockCallbacks |-> [n \in DOMAIN callbacks \ Range(blocks) |->
                                          callbacks[n]],
                   checkpoint |-> canBeEnqueuedTo,
                   queue |-> addBlockTasks(q, callbacks, blocks),
                   bpt |-> addPendingBlocks(bpt, blocks),
                   created |-> created (+) SetToBag(Range(blocks))]

\* ---------------------------------------------------------- buildLogIntervals
RECURSIVE LogIntervalsFrom(_, _, _)
LogIntervalsFrom(prev, requiredBlocks, logs) ==
    IF requiredBlocks = <<>> THEN <<>>
    ELSE LET blockNumber == Head(requiredBlocks)
         IN  <<[startBlock |-> prev, endBlock |-> blockNumber,
                logs |-> {l \in logs : l.blockNumber = blockNumber},
                transactionHashes |->
                    {l.transactionHash : l \in {x \in logs : x.blockNumber = blockNumber}}]>>
             \o LogIntervalsFrom(blockNumber + 1, Tail(requiredBlocks), logs)

\* Mutant: toBlock is not added to the required blocks.
buildLogIntervals_LogBlocksOnly(fromBlock, toBlock, logs) ==
    LogIntervalsFrom(fromBlock, SortedSeq({l.blockNumber : l \in logs}), logs)

buildLogIntervals(fromBlock, toBlock, logs) ==
    LET withLogs == {l.blockNumber : l \in logs}
        requiredBlocks == IF toBlock \in withLogs THEN SortedSeq(withLogs)
                          ELSE Append(SortedSeq(withLogs), toBlock)
    IN  LogIntervalsFrom(fromBlock, requiredBlocks, logs)

\* eth_getLogs of a source over a task's range.
eth_getLogs(kind, id, fromBlock, toBlock) ==
    {l \in ChainLogs(cfg, kind, id) : l.blockNumber \in fromBlock .. toBlock}

\* A block callback: the interval record it inserts once the block is fetched.
Callback(kind, id, logInterval) ==
    [kind |-> kind, source |-> id, startBlock |-> logInterval.startBlock,
     endBlock |-> logInterval.endBlock, logs |-> logInterval.logs]

\* Mutant: the callback is registered twice.
pushCallback_Twice(callbacks, blockNumber, callback) ==
    IF blockNumber \in DOMAIN callbacks
    THEN [callbacks EXCEPT ![blockNumber] = @ \o <<callback, callback>>]
    ELSE (blockNumber :> <<callback, callback>>) @@ callbacks

pushCallback(callbacks, blockNumber, callback) ==
    IF blockNumber \in DOMAIN callbacks
    THEN [callbacks EXCEPT ![blockNumber] = Append(@, callback)]
    ELSE (blockNumber :> <<callback>>) @@ callbacks

RECURSIVE pushCallbacks(_, _, _, _)
pushCallbacks(callbacks, kind, id, logIntervals) ==
    IF logIntervals = <<>> THEN callbacks
    ELSE pushCallbacks(pushCallback(callbacks, Head(logIntervals).endBlock,
                                    Callback(kind, id, Head(logIntervals))),
                       kind, id, Tail(logIntervals))

\* ------------------------------------------------------------- queue workers
Worker(task, pc, i) == [task |-> task, pc |-> pc, i |-> i]

\* Mutant: the queue takes every slot for free.
IdleSlots_All == DOMAIN inflight

IdleSlots == {slot \in DOMAIN inflight : inflight[slot].pc = "idle"}

\* Mutant: the completion check looks at the queued tasks only.
isFinalTask_IgnoresPending(size, pending) == size = 0

\* "If this is not the final task, return."
isFinalTask(size, pending) == ~(size > 0 \/ pending > 1)

\* Where a worker goes after its task's work: into the completion logic
\* (suspended on the start-timestamp metric) or back to the queue.
afterTask(size, pending, shuttingDown) ==
    IF isFinalTask(size, pending) /\ ~shuttingDown THEN "completing" ELSE "returned"

\* The % of the source language: the result has the sign of the dividend.
Remainder(a, b) == IF a >= 0 THEN a % b ELSE -((-a) % b)

\* Blocks a BLOCK_FILTER task processes, in order.
blockFilterRequiredBlocks(source, fromBlock, toBlock) ==
    LET baseOffset == Remainder(fromBlock - source.offset, source.interval)
        offset == IF baseOffset = 0 THEN 0 ELSE source.interval - baseOffset
        matched == {n \in fromBlock .. toBlock :
                      \E k \in 0 .. (toBlock - fromBlock) :
                          n = fromBlock + offset + k * source.interval}
    IN  IF toBlock \in matched THEN SortedSeq(matched)
        ELSE Append(SortedSeq(matched), toBlock)

SourceById(id) ==
    CHOOSE source \in Range(Sources(cfg)) : source.id = id

\* The queue starts its next task in a free slot. The worker runs up to its
\* first suspension point; a TRACE_FILTER worker has none and goes through
\* the completion check at once.
Dispatch ==
    /\ ~isPaused
    /\ queue # <<>>
    /\ IdleSlots # {}
    /\ LET i == NextTaskIndex(queue)
           task == queue[i]
           slot == SetMin(IdleSlots)
           rest == RemoveAt(queue, i)
       IN  /\ queue' = rest
           /\ inflight' = [inflight EXCEPT ![slot] =
                 CASE task.kind = "TRACE_FILTER" ->
                        Worker(task, afterTask(Len(rest), QueuePending + 1,
                                               isShuttingDown), 0)
                   [] task.kind \in {"BLOCK_FILTER", "BLOCK"} ->
                        Worker(task, "getBlock", 1)
                   [] OTHER -> Worker(task, "getLogs", 0)]
    /\ UNCHANGED <<cfg, applied, clock, concurrency, phase, progressTrackers, blockProgressTracker,
                   blockCallbacks, blockTasksEnqueuedCheckpoint, isPaused,
                   isShuttingDown, failures, insertCalls, storeBlocks,
                   syncCompleteCount, debounced, emitted, blockTasksCreated, retried>>

\* Mutant: a failed BLOCK task is retried at the priority of block 0.
onError_BlockPriority(task, q, shuttingDown) ==
    IF shuttingDown THEN q
    ELSE CASE task.kind = "BLOCK" ->
                addTask(q, [task EXCEPT !.priority = MAX_SAFE_INTEGER])
           [] OTHER ->
                addTask(q, [task EXCEPT !.priority = MAX_SAFE_INTEGER - task.fromBlock])

\* Mutant: onError re-enqueues the failed task even when shutting down.
onError_IgnoresShutdown(task, q, shuttingDown) == addTask(q, task)

\* onError: re-enqueue the failed task unless shutting down.
onError(task, q, shuttingDown) ==
    IF shuttingDown THEN q
    ELSE CASE task.kind = "BLOCK" ->
                addTask(q, [task EXCEPT !.priority = MAX_SAFE_INTEGER - task.blockNumber])
           [] OTHER ->
                addTask(q, [task EXCEPT !.priority = MAX_SAFE_INTEGER - task.fromBlock])

\* A worker throws at a suspension point (RPC or store error).
Fail(slot) ==
    /\ inflight[slot].pc \in {"getLogs", "getBlock", "insertInterval", "callback"}
    /\ failures < MaxFailures
    /\ failures' = failures + 1
    /\ inflight' = [inflight EXCEPT ![slot].pc = "rpcError"]
    /\ UNCHANGED <<cfg, applied, clock, concurrency, phase, progressTrackers, blockProgressTracker,
                   blockCallbacks, blockTasksEnqueuedCheckpoint, queue, isPaused,
                   isShuttingDown, insertCalls, storeBlocks, syncCompleteCount,
                   debounced, emitted, blockTasksCreated, retried>>

\* The queue takes note that a worker has thrown: it frees the slot and calls
\* onError.
HandleError(slot) ==
    /\ inflight[slot].pc \in {"rpcError", "pendingBlocksError"}
    /\ queue' = onError(inflight[slot].task, queue, isShuttingDown)
    /\ retried' = IF queue' # queue THEN retried \cup {inflight[slot].task} ELSE retried
    /\ inflight' = [inflight EXCEPT ![slot] = NoWorker]
    /\ UNCHANGED <<cfg, applied, clock, concurrency, phase, progressTrackers, blockProgressTracker,
                   blockCallbacks, blockTasksEnqueuedCheckpoint, isPaused,
                   isShuttingDown, failures, insertCalls, storeBlocks,
                   syncCompleteCount, debounced, emitted, blockTasksCreated>>

\* The end of an interval task that calls enqueueBlockTasks: trackers and
\* callbacks are the values the worker has produced so far.
FinishWithEnqueue(slot, trackers, callbacks) ==
    LET enq == enqueueBlockTasks(trackers, callbacks, blockTasksEnqueuedCheckpoint,
                                 queue, blockProgressTracker, blockTasksCreated)
    IN  /\ progressTrackers' = trackers
        /\ blockCallbacks' = enq.blockCallbacks
        /\ blockTasksEnqueuedCheckpoint' = enq.checkpoint
        /\ blockProgressTracker' = enq.bpt
        /\ blockTasksCreated' = enq.created
        /\ IF enq.threw
           THEN /\ failures < MaxFailures
                /\ failures' = failures + 1
                /\ queue' = queue
                /\ inflight' = [inflight EXCEPT ![slot].pc = "pendingBlocksError"]
           ELSE /\ failures' = failures
                /\ queue' = enq.queue
                /\ inflight' = [inflight EXCEPT ![slot].pc =
                                   afterTask(Len(enq.queue), QueuePending, isShuttingDown)]

MarkCompleted(trackers, kind, task) ==
    [trackers EXCEPT ![<<kind, task.source>>] =
        addCompletedInterval(@, <<task.fromBlock, task.toBlock>>).tracker]

logFilterTaskWorker(slot) ==
    /\ inflight[slot].pc = "getLogs"
    /\ inflight[slot].task.kind = "LOG_FILTER"
    /\ LET task == inflight[slot].task
           logs == eth_getLogs("logFilter", task.source, task.fromBlock, task.toBlock)
           logIntervals == buildLogIntervals(task.fromBlock, task.toBlock, logs)
       IN  FinishWithEnqueue(slot,
               MarkCompleted(progressTrackers, "logFilter", task),
               pushCallbacks(blockCallbacks, "logFilter", task.source, logIntervals))
    /\ UNCHANGED <<cfg, applied, clock, concurrency, phase, isPaused, isShuttingDown, insertCalls,
                   storeBlocks, syncCompleteCount, debounced, emitted, retried>>

factoryLogFilterTaskWorker(slot) ==
    /\ inflight[slot].pc = "getLogs"
    /\ inflight[slot].task.kind = "FACTORY_LOG_FILTER"
    /\ LET task == inflight[slot].task
           logs == eth_getLogs("factoryLogFilter", task.source, task.fromBlock,
                               task.toBlock)
           logIntervals == buildLogIntervals(task.fromBlock, task.toBlock, logs)
       IN  FinishWithEnqueue(slot,
               MarkCompleted(progressTrackers, "factoryLogFilter", task),
               pushCallbacks(blockCallbacks, "factoryLogFilter", task.source,
                             logIntervals))
    /\ UNCHANGED <<cfg, applied, clock, concurrency, phase, isPaused, isShuttingDown, insertCalls,
                   storeBlocks, syncCompleteCount, debounced, emitted, retried>>

\* Mutant: a child address completion enqueues factory log work for the new
\* checkpoint block only.
factoryLogFilterChunks_LastBlock(result, factoryLogFilterTracker, maxChunkSize) ==
    IF result.isUpdated
    THEN getChunks(intervalIntersection({result.newCheckpoint},
                                        getRequired(factoryLogFilterTracker)),
                   maxChunkSize)
    ELSE <<>>

\* FACTORY_LOG_FILTER tasks a child address completion enqueues.
factoryLogFilterChunks(result, factoryLogFilterTracker, maxChunkSize) ==
    IF result.isUpdated
    THEN getChunks(intervalIntersection(
                       (result.prevCheckpoint + 1) .. result.newCheckpoint,
                       getRequired(factoryLogFilterTracker)),
                   maxChunkSize)
    ELSE <<>>

\* eth_getLogs and insertFactoryChildAddressLogs are one suspension here: both
\* come before the first change of the orchestrator's state.
factoryChildAddressTaskWorker(slot) ==
    /\ inflight[slot].pc = "getLogs"
    /\ inflight[slot].task.kind = "FACTORY_CHILD_ADDRESS"
    /\ LET task == inflight[slot].task
           logs == eth_getLogs("factoryChildAddress", task.source, task.fromBlock,
                               task.toBlock)
           logIntervals == buildLogIntervals(task.fromBlock, task.toBlock, logs)
           result == addCompletedInterval(
                         progressTrackers[<<"factoryChildAddress", task.source>>],
                         <<task.fromBlock, task.toBlock>>)
           chunks == factoryLogFilterChunks(result,
                         progressTrackers[<<"factoryLogFilter", task.source>>],
                         SourceMaxBlockRange(SourceById(task.source)))
           q == addTasks(queue, "FACTORY_LOG_FILTER", task.source, chunks)
       IN  /\ blockCallbacks' = pushCallbacks(blockCallbacks, "factoryChildAddress",
                                              task.source, logIntervals)
           /\ progressTrackers' =
                 [progressTrackers EXCEPT ![<<"factoryChildAddress", task.source>>] =
                     result.tracker]
           /\ queue' = q
           /\ inflight' = [inflight EXCEPT ![slot].pc =
                              afterTask(Len(q), QueuePending, isShuttingDown)]
    /\ UNCHANGED <<cfg, applied, clock, concurrency, phase, blockProgressTracker,
                   blockTasksEnqueuedCheckpoint, isPaused, isShuttingDown, failures,
                   insertCalls, storeBlocks, syncCompleteCount, debounced, emitted,
                   blockTasksCreated, retried>>

\* The block the BLOCK_FILTER worker in slot is at, and the interval it ends.
blockFilterBlock(w) ==
    blockFilterRequiredBlocks(SourceById(w.task.source), w.task.fromBlock,
                              w.task.toBlock)[w.i]
\* Mutant: every interval of a BLOCK_FILTER task starts at the task's fromBlock.
blockFilterInterval_FromTaskStart(w) ==
    [startBlock |-> w.task.fromBlock, endBlock |-> blockFilterBlock(w), logs |-> {}]

blockFilterInterval(w) ==
    LET requiredBlocks == blockFilterRequiredBlocks(SourceById(w.task.source),
                                                    w.task.fromBlock, w.task.toBlock)
    IN  [startBlock |-> IF w.i = 1 THEN w.task.fromBlock ELSE requiredBlocks[w.i - 1] + 1,
         endBlock |-> requiredBlocks[w.i], logs |-> {}]
blockFilterIsLast(w) ==
    w.i = Len(blockFilterRequiredBlocks(SourceById(w.task.source), w.task.fromBlock,
                                        w.task.toBlock))

\* After one block of the loop: the next getBlock, or the end of the task.
blockFilterAdvance(slot, callbacks) ==
    IF blockFilterIsLast(inflight[slot])
    THEN FinishWithEnqueue(slot,
             MarkCompleted(progressTrackers, "blockFilter", inflight[slot].task),
             callbacks)
    ELSE /\ blockCallbacks' = callbacks
         /\ inflight' = [inflight EXCEPT ![slot].pc = "getBlock", ![slot].i = @ + 1]
         /\ UNCHANGED <<progressTrackers, blockTasksEnqueuedCheckpoint,
                        blockProgressTracker, blockTasksCreated, failures, queue>>

\* syncStore.getBlock returns: without the block, the interval is left to a
\* block callback; with it, the worker goes on to insert the interval itself.
blockFilterGetBlock(slot) ==
    /\ inflight[slot].pc = "getBlock"
    /\ inflight[slot].task.kind = "BLOCK_FILTER"
    /\ LET w == inflight[slot]
           hasBlock == blockFilterBlock(w) \in storeBlocks
       IN  IF hasBlock
           THEN /\ inflight' = [inflight EXCEPT ![slot].pc = "insertInterval"]
                /\ UNCHANGED <<progressTrackers, blockCallbacks,
                               blockTasksEnqueuedCheckpoint, blockProgressTracker,
                               blockTasksCreated, failures, queue>>
           ELSE blockFilterAdvance(slot,
                    pushCallback(blockCallbacks, blockFilterBlock(w),
                                 Callback("blockFilter", w.task.source,
                                          blockFilterInterval(w))))
    /\ UNCHANGED <<cfg, applied, clock, concurrency, phase, isPaused, isShuttingDown, insertCalls,
                   storeBlocks, syncCompleteCount, debounced, emitted, retried>>

\* syncStore.insertBlockFilterInterval (without a block) returns.
blockFilterInsertInterval(slot) ==
    /\ inflight[slot].pc = "insertInterval"
    /\ inflight[slot].task.kind = "BLOCK_FILTER"
    /\ insertCalls' = insertCalls (+)
           SetToBag({Callback("blockFilter", inflight[slot].task.source,
                              blockFilterInterval(inflight[slot]))})
    /\ blockFilterAdvance(slot, blockCallbacks)
    /\ UNCHANGED <<cfg, applied, clock, concurrency, phase, isPaused, isShuttingDown, storeBlocks,
                   syncCompleteCount, debounced, emitted, retried>>

\* eth_getBlockByNumber returns the block: the first callback starts.
blockTaskGetBlock(slot) ==
    /\ inflight[slot].pc = "getBlock"
    /\ inflight[slot].task.kind = "BLOCK"
    /\ inflight' = [inflight EXCEPT ![slot].pc = "callback"]
    /\ UNCHANGED <<cfg, applied, clock, concurrency, phase, progressTrackers, blockProgressTracker,
                   blockCallbacks, blockTasksEnqueuedCheckpoint, queue, isPaused,
                   isShuttingDown, failures, insertCalls, storeBlocks,
                   syncCompleteCount, debounced, emitted, blockTasksCreated, retried>>

\* Mutant: every completed block is handed to the debouncer as a checkpoint.
checkpointAfterBlock_EveryBlock(newBlockCheckpoint, blockNumber, held) ==
    [blockNumber |-> blockNumber, blockTimestamp |-> BlockTimestamp(blockNumber)]

\* What the debouncer holds after a BLOCK task has completed blockNumber: the
\* new frontier if addCompletedBlock returned one, else what it held before.
checkpointAfterBlock(newBlockCheckpoint, blockNumber, held) ==
    IF newBlockCheckpoint # NoCheckpoint
    THEN [blockNumber |-> newBlockCheckpoint.blockNumber,
          blockTimestamp |-> newBlockCheckpoint.blockTimestamp]
    ELSE held

\* Mutant: a null response is handed on as the block.
eth_getBlockByNumber_PassesNull(response) == [threw |-> FALSE, block |-> response]

\* _eth_getBlockByNumber: a null response is thrown as BlockNotFoundError.
eth_getBlockByNumber(response) ==
    IF response = "null" THEN [threw |-> TRUE, block |-> response]
    ELSE [threw |-> FALSE, block |-> response]

\* eth_getBlockByNumber answers null for the block of a BLOCK task.
blockTaskBlockNotFound(slot) ==
    /\ inflight[slot].pc = "getBlock"
    /\ inflight[slot].task.kind = "BLOCK"
    /\ failures < MaxFailures
    /\ IF eth_getBlockByNumber("null").threw
       THEN /\ failures' = failures + 1
            /\ inflight' = [inflight EXCEPT ![slot].pc = "rpcError"]
       ELSE /\ failures' = failures
            /\ inflight' = [inflight EXCEPT ![slot].pc = "callback"]
    /\ UNCHANGED <<cfg, applied, clock, concurrency, phase, progressTrackers,
                   blockProgressTracker, blockCallbacks, blockTasksEnqueuedCheckpoint,
                   queue, isPaused, isShuttingDown, insertCalls, storeBlocks,
                   syncCompleteCount, debounced, emitted, blockTasksCreated, retried>>

\* Mutant: the block is completed as soon as one callback has returned.
blockTaskCallback_CompletesEarly(slot) ==
    /\ inflight[slot].pc = "callback"
    /\ LET w == inflight[slot]
           task == w.task
           result == addCompletedBlock(blockProgressTracker, task.blockNumber)
       IN  /\ insertCalls' = insertCalls (+) SetToBag({task.callbacks[w.i]})
           /\ storeBlocks' = storeBlocks \cup {task.blockNumber}
           /\ IF FALSE
              THEN /\ inflight' = [inflight EXCEPT ![slot].i = @ + 1]
                   /\ UNCHANGED <<blockProgressTracker, debounced>>
              ELSE /\ blockProgressTracker' = result.bpt
                   /\ debounced' = checkpointAfterBlock(result.checkpoint,
                                                        task.blockNumber, debounced)
                   /\ inflight' = [inflight EXCEPT ![slot].pc =
                                      afterTask(QueueSize, QueuePending, isShuttingDown)]
    /\ UNCHANGED <<cfg, applied, clock, concurrency, phase, progressTrackers, blockCallbacks,
                   blockTasksEnqueuedCheckpoint, queue, isPaused, isShuttingDown,
                   failures, syncCompleteCount, emitted, blockTasksCreated, retried>>

\* The callback a BLOCK worker is suspended in returns (its store insert is
\* done); the next one starts, or after the last one the block is completed.
blockTaskCallback(slot) ==
    /\ inflight[slot].pc = "callback"
    /\ LET w == inflight[slot]
           task == w.task
           result == addCompletedBlock(blockProgressTracker, task.blockNumber)
       IN  /\ insertCalls' = insertCalls (+) SetToBag({task.callbacks[w.i]})
           /\ storeBlocks' = storeBlocks \cup {task.blockNumber}
           /\ IF w.i < Len(task.callbacks)
              THEN /\ inflight' = [inflight EXCEPT ![slot].i = @ + 1]
                   /\ UNCHANGED <<blockProgressTracker, debounced>>
              ELSE /\ blockProgressTracker' = result.bpt
                   /\ debounced' = checkpointAfterBlock(result.checkpoint,
                                                        task.blockNumber, debounced)
                   /\ inflight' = [inflight EXCEPT ![slot].pc =
                                      afterTask(QueueSize, QueuePending, isShuttingDown)]
    /\ UNCHANGED <<cfg, applied, clock, concurrency, phase, progressTrackers, blockCallbacks,
                   blockTasksEnqueuedCheckpoint, queue, isPaused, isShuttingDown,
                   failures, syncCompleteCount, emitted, blockTasksCreated, retried>>

\* The completion logic resumes after reading the start timestamp and emits
\* syncComplete.
EmitSyncComplete(slot) ==
    /\ inflight[slot].pc = "completing"
    /\ syncCompleteCount' = syncCompleteCount + 1
    /\ inflight' = [inflight EXCEPT ![slot].pc = "returned"]
    /\ UNCHANGED <<cfg, applied, clock, concurrency, phase, progressTrackers, blockProgressTracker,
                   blockCallbacks, blockTasksEnqueuedCheckpoint, queue, isPaused,
                   isShuttingDown, failures, insertCalls, storeBlocks, debounced,
                   emitted, blockTasksCreated, retried>>

\* The queue takes note that a worker has returned and frees its slot.
Release(slot) ==
    /\ inflight[slot].pc = "returned"
    /\ inflight' = [inflight EXCEPT ![slot] = NoWorker]
    /\ UNCHANGED <<cfg, applied, clock, concurrency, phase, progressTrackers, blockProgressTracker,
                   blockCallbacks, blockTasksEnqueuedCheckpoint, queue, isPaused,
                   isShuttingDown, failures, insertCalls, storeBlocks,
                   syncCompleteCount, debounced, emitted, blockTasksCreated, retried>>

\* The debounce timer fires: the latest checkpoint handed in is emitted.
debouncedEmitCheckpoint ==
    /\ debounced # NoCheckpoint
    /\ emitted' = Append(emitted, debounced)
    /\ debounced' = NoCheckpoint
    /\ UNCHANGED <<cfg, applied, clock, concurrency, phase, progressTrackers, blockProgressTracker,
                   blockCallbacks, blockTasksEnqueuedCheckpoint, queue, isPaused,
                   inflight, isShuttingDown, failures, insertCalls, storeBlocks,
                   syncCompleteCount, blockTasksCreated, retried>>

\* ------------------------------------------------------------ specification
LogFilterDone == \E slot \in DOMAIN inflight : logFilterTaskWorker(slot)
FactoryChildAddressDone == \E slot \in DOMAIN inflight : factoryChildAddressTaskWorker(slot)
FactoryLogFilterDone == \E slot \in DOMAIN inflight : factoryLogFilterTaskWorker(slot)
BlockFilterGetBlock == \E slot \in DOMAIN inflight : blockFilterGetBlock(slot)
BlockFilterInsertInterval == \E slot \in DOMAIN inflight : blockFilterInsertInterval(slot)
BlockGetBlock == \E slot \in DOMAIN inflight : blockTaskGetBlock(slot)
BlockNotFound == \E slot \in DOMAIN inflight : blockTaskBlockNotFound(slot)
BlockCallback == \E slot \in DOMAIN inflight : blockTaskCallback(slot)
WorkerFails == \E slot \in DOMAIN inflight : Fail(slot)
QueueOnError == \E slot \in DOMAIN inflight : HandleError(slot)
SyncComplete == \E slot \in DOMAIN inflight : EmitSyncComplete(slot)
WorkerReturns == \E slot \in DOMAIN inflight : Release(slot)

Next ==
    \/ Setup
    \/ Start
    \/ Kill
    \/ Dispatch
    \/ LogFilterDone
    \/ FactoryChildAddressDone
    \/ FactoryLogFilterDone
    \/ BlockFilterGetBlock
    \/ BlockFilterInsertInterval
    \/ BlockGetBlock
    \/ BlockNotFound
    \/ BlockCallback
    \/ WorkerFails
    \/ QueueOnError
    \/ SyncComplete
    \/ WorkerReturns
    \/ debouncedEmitCheckpoint

Spec == Init /\ [][Next]_vars

\* ------------------------------------------------ functions applied alone
\* buildLogIntervals and the block matching of the BLOCK_FILTER worker depend
\* on their arguments only. ApplySpec draws the arguments at the start and
\* applies the function to them in one step; the orchestrator stays as
\* constructed.
MaxBlock == 3
MaxInterval == 3
MaxOffset == 4

serviceVars ==
    <<cfg, concurrency, phase, progressTrackers, blockProgressTracker,
      blockCallbacks, blockTasksEnqueuedCheckpoint, queue, isPaused, inflight,
      isShuttingDown, failures, insertCalls, storeBlocks, syncCompleteCount,
      debounced, emitted, blockTasksCreated, retried>>

\* What eth_getLogs can return for one block: nothing, one log, two logs of
\* one transaction, or two logs of two transactions.
LogsOfBlock(blockNumber, choice) ==
    CASE choice = 0 -> {}
      [] choice = 1 -> {RpcLog(blockNumber, 0, "0xa")}
      [] choice = 2 -> {RpcLog(blockNumber, 0, "0xa"), RpcLog(blockNumber, 1, "0xa")}
      [] choice = 3 -> {RpcLog(blockNumber, 0, "0xa"), RpcLog(blockNumber, 1, "0xb")}

\* What eth_getLogs over [fromBlock, toBlock] can return.
LogsInRange(fromBlock, toBlock) ==
    {UNION {LogsOfBlock(n, choice[n]) : n \in fromBlock .. toBlock} :
        choice \in [fromBlock .. toBlock -> 0 .. 3]}

BlockRanges == {r \in (0 .. MaxBlock) \X (0 .. MaxBlock) : r[1] <= r[2]}

Application(fn, fromBlock, toBlock, logs, interval, offset) ==
    [fn |-> fn, fromBlock |-> fromBlock, toBlock |-> toBlock, logs |-> logs,
     interval |-> interval, offset |-> offset, done |-> FALSE, result |-> <<>>]

buildLogIntervalsInputs ==
    UNION {{Application("buildLogIntervals", r[1], r[2], logs, undefined, undefined) :
               logs \in LogsInRange(r[1], r[2])} : r \in BlockRanges}

\* Block filter criteria and task ranges, with interval 10, offset 3 over
\* [0, 30] among them.
blockFilterInputs ==
    {Application("blockFilterRequiredBlocks", r[1], r[2], {}, criteria[1], criteria[2]) :
        r \in BlockRanges, criteria \in (1 .. MaxInterval) \X (0 .. MaxOffset)}
      \cup {Application("blockFilterRequiredBlocks", 0, 30, {}, 10, 3)}

InitApply ==
    /\ Constructed
    /\ cfg = "logCached"
    /\ concurrency = 1
    /\ applied \in buildLogIntervalsInputs \cup blockFilterInputs
    /\ clock = NoClock

ApplyBuildLogIntervals ==
    /\ applied.fn = "buildLogIntervals"
    /\ ~applied.done
    /\ applied' = [applied EXCEPT
                      !.done = TRUE,
                      !.result = buildLogIntervals(applied.fromBlock, applied.toBlock,
                                                   applied.logs)]
    /\ UNCHANGED <<serviceVars, clock>>

ApplyBlockFilterRequiredBlocks ==
    /\ applied.fn = "blockFilterRequiredBlocks"
    /\ ~applied.done
    /\ applied' = [applied EXCEPT
                      !.done = TRUE,
                      !.result = blockFilterRequiredBlocks(
                                     BlockSource("B", 0, undefined, applied.interval,
                                                 applied.offset),
                                     applied.fromBlock, applied.toBlock)]
    /\ UNCHANGED <<serviceVars, clock>>

NextApply ==
    \/ ApplyBuildLogIntervals
    \/ ApplyBlockFilterRequiredBlocks

ApplySpec == InitApply /\ [][NextApply]_vars

\* ------------------------------------------------ the checkpoint debouncer
\* debounce(HISTORICAL_CHECKPOINT_EMIT_INTERVAL, emit) with a clock: the
\* debouncer holds the latest value passed to call() and a timer; each call
\* sets the timer, or refreshes or keeps a timer already set, and the timer
\* fires at or after its deadline and emits the value held. DebounceSpec lets
\* the BLOCK workers report growing frontiers at arbitrary times; clock.now is
\* in milliseconds and advances in steps of TickMs.
HISTORICAL_CHECKPOINT_EMIT_INTERVAL == 500
TickMs == 250
MaxTime == 2000

\* Mutant: the timer is due at once.
debounceDeadline_Immediate(now) == now

debounceDeadline(now) == now + HISTORICAL_CHECKPOINT_EMIT_INTERVAL

InitDebounce ==
    /\ Constructed
    /\ cfg = "logCached"
    /\ concurrency = 1
    /\ applied = NotApplied
    /\ clock = NoClock

Tick ==
    /\ clock.now < MaxTime
    /\ clock' = [clock EXCEPT !.now = @ + TickMs]
    /\ UNCHANGED <<serviceVars, applied>>

\* debouncedEmitCheckpoint.call(checkpoint), from a BLOCK worker whose
\* addCompletedBlock returned the new frontier blockNumber.
debounceCall(blockNumber) ==
    /\ blockNumber > clock.lastPassed.blockNumber
    /\ debounced' = checkpointAfterBlock(
                        [blockNumber |-> blockNumber,
                         blockTimestamp |-> BlockTimestamp(blockNumber)],
                        blockNumber, debounced)
    /\ \E deadline \in {debounceDeadline(clock.now)}
                          \cup (IF clock.timer = undefined THEN {} ELSE {clock.timer}) :
          clock' = [clock EXCEPT !.timer = deadline, !.lastPassed = debounced']
    /\ UNCHANGED <<cfg, concurrency, phase, progressTrackers, blockProgressTracker,
                   blockCallbacks, blockTasksEnqueuedCheckpoint, queue, isPaused,
                   inflight, isShuttingDown, failures, insertCalls, storeBlocks,
                   syncCompleteCount, emitted, blockTasksCreated, retried, applied>>

\* The timer fires: emit("historicalCheckpoint", the value held).
debounceTimerFires ==
    /\ clock.timer # undefined
    /\ clock.now >= clock.timer
    /\ emitted' = Append(emitted, debounced)
    /\ debounced' = NoCheckpoint
    /\ clock' = [clock EXCEPT !.timer = undefined,
                              !.emittedAt = Append(@, clock.now)]
    /\ UNCHANGED <<cfg, concurrency, phase, progressTrackers, blockProgressTracker,
                   blockCallbacks, blockTasksEnqueuedCheckpoint, queue, isPaused,
                   inflight, isShuttingDown, failures, insertCalls, storeBlocks,
                   syncCompleteCount, blockTasksCreated, retried, applied>>

DebounceCall == \E blockNumber \in 0 .. MaxBlock : debounceCall(blockNumber)

NextDebounce ==
    \/ Tick
    \/ DebounceCall
    \/ debounceTimerFires

DebounceSpec == InitDebounce /\ [][NextDebounce]_vars

\* ------------------------------------------------------------------ restart
\* kill() followed by setup() on the same instance. RestartSpec runs the
\* service in the configurations blockFilter and partlyCached, kills it at
\* any point, and calls setup() again while the workers that were in flight at
\* kill() run on. `applied` counts the restarts and keeps the tasks the last
\* one enqueued.
MaxRestarts == 1

InitRestart ==
    /\ Constructed
    /\ cfg \in {"blockFilter", "partlyCached"}
    /\ applied = [fn |-> "restart", calls |-> 0, enqueued |-> <<>>]
    /\ clock = NoClock

\* setup() on an instance that was killed: the body of setup() again, on the
\* fields as the first run left them.
Restart ==
    /\ phase = "killed"
    /\ applied.calls < MaxRestarts
    /\ LET st == SetupSources([trackers |-> progressTrackers, queue |-> queue],
                              Sources(cfg))
       IN  /\ progressTrackers' = st.trackers
           /\ queue' = st.queue
    /\ isShuttingDown' = FALSE
    /\ blockTasksEnqueuedCheckpoint' = 0
    /\ phase' = "setup"
    /\ applied' = [applied EXCEPT
                      !.calls = @ + 1,
                      !.enqueued = SetupSources([trackers |-> progressTrackers,
                                                 queue |-> <<>>], Sources(cfg)).queue]
    /\ UNCHANGED <<cfg, clock, concurrency, blockProgressTracker, blockCallbacks, isPaused,
                   inflight, failures, insertCalls, storeBlocks, syncCompleteCount,
                   debounced, emitted, blockTasksCreated, retried>>

\* Neither configuration has a factory with work to do, so the workers of the
\* factory tasks never run.
NextRestart ==
    \/ Setup
    \/ Start
    \/ Kill
    \/ Restart
    \/ Dispatch
    \/ LogFilterDone
    \/ BlockFilterGetBlock
    \/ BlockFilterInsertInterval
    \/ BlockGetBlock
    \/ BlockNotFound
    \/ BlockCallback
    \/ WorkerFails
    \/ QueueOnError
    \/ SyncComplete
    \/ WorkerReturns
    \/ debouncedEmitCheckpoint

RestartSpec == InitRestart /\ [][NextRestart]_vars

\* ------------------------------------------------------------------ claims
\* Blocks for which the step creates a BLOCK task.
NewlyEnqueuedBlocks ==
    {n \in BagToSet(blockTasksCreated') :
        CopiesIn(n, blockTasksCreated') > CopiesIn(n, blockTasksCreated)}

\* Copies of a callback that are registered and have not run to the end of
\* their BLOCK task: in blockCallbacks, in a queued or in a running BLOCK task.
RegisteredIn(callbacks, q, workers, callback) ==
    LET positions(key, seq) == {<<key, i>> : i \in {j \in DOMAIN seq : seq[j] = callback}}
        inMap == UNION {positions(n, callbacks[n]) : n \in DOMAIN callbacks}
        inQueue == UNION {positions(j, q[j].callbacks) :
                            j \in {x \in DOMAIN q : q[x].kind = "BLOCK"}}
        inWorker == UNION {positions(slot, workers[slot].task.callbacks) :
                             slot \in {x \in DOMAIN workers :
                                         /\ workers[x].pc # "idle"
                                         /\ workers[x].task.kind = "BLOCK"}}
    IN  Cardinality(inMap) + Cardinality(inQueue) + Cardinality(inWorker)

\* A BLOCK task for a block at most b is queued or has not finished.
BlockTaskUnfinished(b) ==
    \/ \E i \in DOMAIN queue : queue[i].kind = "BLOCK" /\ queue[i].blockNumber <= b
    \/ \E slot \in DOMAIN inflight :
          /\ inflight[slot].pc \in {"getBlock", "callback", "rpcError"}
          /\ inflight[slot].task.kind = "BLOCK"
          /\ inflight[slot].task.blockNumber <= b

\* C1: whenever enqueueBlockTasks creates a BLOCK task for block n, every
\* progress tracker that still has required intervals has a checkpoint >= n
\* (so X's callback for a block is held back while Y's checkpoint is below it).
C1_BlockTasksAreGated ==
    [][\A n \in NewlyEnqueuedBlocks :
          \A k \in DOMAIN progressTrackers' :
              getRequired(progressTrackers'[k]) # {}
                  => getCheckpoint(progressTrackers'[k]) >= n]_vars

\* C1 witness: two log sources; the BLOCK task of block 1 exists while X still
\* has required intervals.
C1_Witness ==
    /\ cfg = "twoLogs"
    /\ 1 \in BagToSet(blockTasksCreated)
    /\ getRequired(progressTrackers[<<"logFilter", "X">>]) # {}

\* C2: no block that has callbacks registered in blockCallbacks is at or below
\* a block already handed to a BLOCK task (no late callback).
C2_NoLateCallback ==
    \A m \in DOMAIN blockCallbacks : \A n \in BagToSet(blockTasksCreated) : m > n

\* C3: within a run, at most one BLOCK task is created per block number.
C3_OneBlockTaskPerBlock ==
    \A n \in BagToSet(blockTasksCreated) : CopiesIn(n, blockTasksCreated) <= 1

\* C4: syncComplete is emitted at most once per run.
C4_SyncCompleteAtMostOnce == syncCompleteCount <= 1

\* C4 witness: syncComplete has been emitted by a worker in a run with two
\* slots in which a task failed and was retried.
C4_Witness ==
    /\ syncCompleteCount = 1
    /\ concurrency = 2
    /\ retried # {}
    /\ \E slot \in DOMAIN inflight : inflight[slot].pc = "returned"

\* C5: if kill() is never called and every failing task eventually succeeds,
\* syncComplete is eventually emitted. Checked on the states in which the run
\* has come to rest (started, not killed, nothing queued, no worker running,
\* so that no later step can emit the event): syncComplete has been emitted.
C5_SyncCompleteEventually ==
    (/\ phase = "started"
     /\ queue = <<>>
     /\ \A slot \in DOMAIN inflight : inflight[slot].pc = "idle")
        => syncCompleteCount >= 1

\* C6: when a worker emits syncComplete, no task is queued, blockCallbacks is
\* empty and no progress tracker has required intervals left.
C6_SyncCompleteMeansDrained ==
    [][(\E slot \in DOMAIN inflight :
            inflight[slot].pc = "completing" /\ inflight'[slot].pc = "returned")
        => /\ queue = <<>>
           /\ DOMAIN blockCallbacks = {}
           /\ \A k \in DOMAIN progressTrackers :
                 getRequired(progressTrackers[k]) = {}]_vars

C8_CheckpointIsDurable ==
    \A i \in DOMAIN emitted :
        /\ \A m \in DOMAIN blockCallbacks : m > emitted[i].blockNumber
        /\ ~BlockTaskUnfinished(emitted[i].blockNumber)

\* C9: when the queue hands a failed task to onError and the service is not
\* shutting down, exactly one copy of the task (same range or block, same
\* callbacks) is appended to the queue, with the priority it was first given:
\* MAX_SAFE_INTEGER - fromBlock, or MAX_SAFE_INTEGER - blockNumber.
C9_RetryOnFailure ==
    [][\A slot \in DOMAIN inflight :
          (/\ inflight[slot].pc \in {"rpcError", "pendingBlocksError"}
           /\ inflight'[slot].pc = "idle"
           /\ ~isShuttingDown)
            => LET task == inflight[slot].task
               IN  /\ queue' = Append(queue, task)
                   /\ queue'[Len(queue')].priority =
                         MAX_SAFE_INTEGER - (IF task.kind = "BLOCK" THEN task.blockNumber
                                             ELSE task.fromBlock)]_vars

\* C9 witness: a failed BLOCK task for a block above 0 is back on the queue.
C9_Witness ==
    \E i \in DOMAIN queue :
        /\ queue[i] \in retried
        /\ queue[i].kind = "BLOCK"
        /\ queue[i].blockNumber > 0

\* The callbacks of a FACTORY_LOG_FILTER task: one per log interval.
CallbacksOf(task) ==
    LET logIntervals == buildLogIntervals(task.fromBlock, task.toBlock,
                            eth_getLogs("factoryLogFilter", task.source,
                                        task.fromBlock, task.toBlock))
    IN  {Callback("factoryLogFilter", task.source, logIntervals[j]) :
            j \in DOMAIN logIntervals}

\* C10 (as claimed): once a FACTORY_LOG_FILTER task has failed and been retried,
\* each of its log intervals has at most one callback registered and is
\* inserted at most once in the run.
C10_InsertedExactlyOnce ==
    \A task \in {t \in retried : t.kind = "FACTORY_LOG_FILTER"} :
        \A callback \in CallbacksOf(task) :
            /\ RegisteredIn(blockCallbacks, queue, inflight, callback) <= 1
            /\ CopiesIn(callback, insertCalls) <= 1

\* C10 (amended): an attempt of a FACTORY_LOG_FILTER task that fails on its RPC
\* changes neither blockCallbacks, nor the trackers, nor the store; the attempt
\* that succeeds registers exactly one callback per log interval of the task;
\* and each run of a callback by a BLOCK task inserts its interval once.
C10_RetryRegistersOnce ==
    [][\A slot \in DOMAIN inflight :
          /\ (/\ inflight[slot].pc = "getLogs"
              /\ inflight[slot].task.kind = "FACTORY_LOG_FILTER"
              /\ inflight'[slot].pc = "rpcError")
               => UNCHANGED <<blockCallbacks, progressTrackers, insertCalls, queue>>
          /\ (/\ inflight[slot].pc = "getLogs"
              /\ inflight[slot].task.kind = "FACTORY_LOG_FILTER"
              /\ inflight'[slot].pc \in {"returned", "completing"})
               => LET task == inflight[slot].task
                      logIntervals == buildLogIntervals(task.fromBlock, task.toBlock,
                                          eth_getLogs("factoryLogFilter", task.source,
                                                      task.fromBlock, task.toBlock))
                  IN  \A j \in DOMAIN logIntervals :
                         LET callback == Callback("factoryLogFilter", task.source,
                                                  logIntervals[j])
                         IN  RegisteredIn(blockCallbacks', queue', inflight', callback)
                               = RegisteredIn(blockCallbacks, queue, inflight, callback) + 1
          /\ (/\ inflight[slot].pc = "callback"
              /\ inflight'[slot].pc \in {"callback", "returned", "completing"}
              /\ inflight'[slot] # inflight[slot])
               => insertCalls' = insertCalls (+)
                      SetToBag({inflight[slot].task.callbacks[inflight[slot].i]})]_vars

\* C10 witness: a FACTORY_LOG_FILTER task that failed and was retried has
\* succeeded, and one of its intervals has been inserted.
C10_Witness ==
    \E task \in retried :
        /\ task.kind = "FACTORY_LOG_FILTER"
        /\ (task.fromBlock .. task.toBlock) \subseteq
              progressTrackers[<<"factoryLogFilter", task.source>>].completed
        /\ \E call \in BagToSet(insertCalls) :
              /\ call.kind = "factoryLogFilter"
              /\ call.source = task.source
              /\ call.endBlock \in task.fromBlock .. task.toBlock

\* C11: kill() sets the shutdown flag, pauses and empties the queue; after it,
\* no queued task starts executing, and a worker failure handed to onError
\* adds no task to the queue.
C11_KillStopsScheduling ==
    [][/\ (~isShuttingDown /\ isShuttingDown')
            => (isPaused' /\ queue' = <<>>)
       /\ isShuttingDown
            => /\ isPaused'
               /\ \A slot \in DOMAIN inflight :
                     inflight[slot].pc = "idle" => inflight'[slot].pc = "idle"
               /\ \A slot \in DOMAIN inflight :
                     (/\ inflight[slot].pc \in {"rpcError", "pendingBlocksError"}
                      /\ inflight'[slot].pc = "idle")
                        => queue' = queue]_vars

\* C11 witness: a worker failed, the failure was handed to onError after
\* kill(), and the task was not put back.
C11_Witness ==
    /\ isShuttingDown
    /\ failures > 0
    /\ retried = {}
    /\ \A slot \in DOMAIN inflight : inflight[slot].pc = "idle"

\* C12: after kill(), a worker that was suspended on an RPC or store call
\* performs no further side effect when the call returns: no store insert, no
\* append to blockCallbacks, no addCompletedInterval or addCompletedBlock, no
\* addTask, and no historicalCheckpoint is emitted.
C12_ResultsDiscardedAfterKill ==
    [][isShuttingDown
          => UNCHANGED <<insertCalls, storeBlocks, blockCallbacks, progressTrackers,
                         blockProgressTracker, queue, emitted>>]_vars

\* C13: syncComplete is never emitted after kill() has been called.
C13_NoSyncCompleteAfterKill ==
    [][isShuttingDown => syncCompleteCount' = syncCompleteCount]_vars

\* The progress trackers a source of each type has.
TrackerKinds(source) ==
    CASE source.type = "log" -> {"logFilter"}
      [] source.type = "factory" -> {"factoryChildAddress", "factoryLogFilter"}
      [] source.type = "block" -> {"blockFilter"}
      [] source.type = "function" -> {"traceFilter"}

\* The target [start, effective end] of a source that needs historical sync.
TargetOf(source) ==
    LET range == validateHistoricalBlockRange(source, Network(cfg).finalizedBlockNumber)
    IN  IF range.isHistoricalSyncRequired THEN range.startBlock .. range.endBlock
        ELSE {}

\* The store's completed intervals cover the whole target of every source.
FullyCached ==
    \A source \in Range(Sources(cfg)) :
        \A kind \in TrackerKinds(source) :
            TargetOf(source) \subseteq CachedIntervals(cfg, kind, source.id)

\* C14: if the store's completed intervals cover the whole target of every
\* source, setup() enqueues no task and start() itself emits syncComplete,
\* without any worker running and without any historicalCheckpoint.
C14_FullyCachedStart ==
    [][FullyCached
          => /\ queue' = <<>>
             /\ \A slot \in DOMAIN inflight : inflight'[slot].pc = "idle"
             /\ emitted' = <<>>
             /\ (phase = "setup" /\ phase' = "started")
                   => (syncCompleteCount = 0 /\ syncCompleteCount' = 1)]_vars

\* C14 witness: a log, a factory and a block source fully cached and a source
\* that starts after the finalized block; start() has emitted syncComplete.
C14_Witness ==
    /\ cfg = "allCached"
    /\ FullyCached
    /\ phase = "started"
    /\ syncCompleteCount = 1

\* Positions in the queue of the tasks of one kind for one source.
TasksOf(taskKind, id) ==
    {i \in DOMAIN queue : queue[i].kind = taskKind /\ queue[i].source = id}

\* The task kind and the chunk size setup() uses for a log, block or
\* function-call source.
SetupTaskKind(source) ==
    CASE source.type = "log" -> "LOG_FILTER"
      [] source.type = "block" -> "BLOCK_FILTER"
      [] source.type = "function" -> "TRACE_FILTER"

SetupChunkSize(source) ==
    IF source.type = "block" \/ source.maxBlockRange = undefined
    THEN Network(cfg).defaultMaxBlockRange
    ELSE source.maxBlockRange

\* C15: for a log, block or function-call source, setup() enqueues one task
\* per chunk of the required intervals: the ranges are pairwise disjoint, no
\* longer than the chunk size, their union is the target minus the store's
\* completed intervals, and each has priority MAX_SAFE_INTEGER - fromBlock.
C15_SetupTasks ==
    phase = "setup" =>
        \A source \in {x \in Range(Sources(cfg)) : x.type \in {"log", "block", "function"}} :
            LET tasks == TasksOf(SetupTaskKind(source), source.id)
                kind == CHOOSE k \in TrackerKinds(source) : TRUE
                required == TargetOf(source) \ CachedIntervals(cfg, kind, source.id)
                chunks == getChunks(required, SetupChunkSize(source))
            IN  /\ \A i, j \in tasks :
                      i # j => (queue[i].fromBlock .. queue[i].toBlock)
                                 \cap (queue[j].fromBlock .. queue[j].toBlock) = {}
                /\ UNION {queue[i].fromBlock .. queue[i].toBlock : i \in tasks} = required
                /\ \A i \in tasks :
                      /\ queue[i].fromBlock <= queue[i].toBlock
                      /\ queue[i].toBlock - queue[i].fromBlock + 1 <= SetupChunkSize(source)
                      /\ queue[i].priority = MAX_SAFE_INTEGER - queue[i].fromBlock
                /\ Cardinality(tasks) = Len(chunks)
                /\ \A n \in DOMAIN chunks :
                      \E i \in tasks : <<queue[i].fromBlock, queue[i].toBlock>> = chunks[n]

\* C15 witness: setup() has run for a log, a function-call and a block source
\* whose targets are cached in part; the log source has two tasks.
C15_Witness ==
    /\ cfg = "partlyCached"
    /\ phase = "setup"
    /\ Cardinality(TasksOf("LOG_FILTER", "X")) = 2
    /\ TasksOf("TRACE_FILTER", "T") # {}
    /\ TasksOf("BLOCK_FILTER", "B") # {}

\* Blocks covered by the queued tasks of one kind for one source.
QueuedBlocks(taskKind, id) ==
    UNION {queue[i].fromBlock .. queue[i].toBlock : i \in TasksOf(taskKind, id)}

\* C16: for a factory source, setup() enqueues FACTORY_CHILD_ADDRESS tasks
\* covering exactly the child-address tracker's required intervals and
\* FACTORY_LOG_FILTER tasks covering exactly the factory-log required intervals
\* minus the child-address required ones; none with an empty cache.
C16_FactorySetup ==
    phase = "setup" =>
        \A source \in {x \in Range(Sources(cfg)) : x.type = "factory"} :
            LET childRequired ==
                    TargetOf(source) \ CachedIntervals(cfg, "factoryChildAddress", source.id)
                logRequired ==
                    TargetOf(source) \ CachedIntervals(cfg, "factoryLogFilter", source.id)
            IN  /\ QueuedBlocks("FACTORY_CHILD_ADDRESS", source.id) = childRequired
                /\ QueuedBlocks("FACTORY_LOG_FILTER", source.id) = logRequired \ childRequired
                /\ (/\ CachedIntervals(cfg, "factoryChildAddress", source.id) = {}
                    /\ CachedIntervals(cfg, "factoryLogFilter", source.id) = {})
                      => TasksOf("FACTORY_LOG_FILTER", source.id) = {}

\* C16 witness: setup() has run for a factory whose child addresses are cached
\* for the later part of the range: both kinds of task are queued.
C16_Witness ==
    /\ cfg = "factoryLateCache"
    /\ phase = "setup"
    /\ TasksOf("FACTORY_CHILD_ADDRESS", "F") # {}
    /\ TasksOf("FACTORY_LOG_FILTER", "F") # {}

\* The queue starts a task of the given kind in slot.
Starts(slot, taskKind) ==
    /\ inflight[slot].pc = "idle"
    /\ inflight'[slot].pc # "idle"
    /\ inflight'[slot].task.kind = taskKind

\* C17: when a TRACE_FILTER task for [from,to] finishes (its worker has no
\* suspension point: it finishes in the step that starts it), the trace-filter
\* tracker of its source has [from,to] in its completed set.
C17_TraceFilterProgress ==
    [][\A slot \in DOMAIN inflight :
          Starts(slot, "TRACE_FILTER")
            => LET task == inflight'[slot].task
               IN  (task.fromBlock .. task.toBlock) \subseteq
                      progressTrackers'[<<"traceFilter", task.source>>].completed]_vars

\* C18: whenever a FACTORY_LOG_FILTER task for [from,to] starts executing, the
\* factory's child-address tracker has completed every block of
\* [factory start, to].
C18_ChildAddressesBeforeFactoryLogs ==
    [][\A slot \in DOMAIN inflight :
          Starts(slot, "FACTORY_LOG_FILTER")
            => LET task == inflight'[slot].task
               IN  (SourceById(task.source).startBlock .. task.toBlock) \subseteq
                      progressTrackers[<<"factoryChildAddress", task.source>>].completed]_vars

\* The FACTORY_LOG_FILTER tasks that are queued or in flight, with where they are.
LiveFactoryLogFilterTasks ==
    {[at |-> <<"queue", i>>, task |-> queue[i]] :
        i \in {j \in DOMAIN queue : queue[j].kind = "FACTORY_LOG_FILTER"}}
      \cup
    {[at |-> <<"slot", slot>>, task |-> inflight[slot].task] :
        slot \in {x \in DOMAIN inflight :
                    /\ inflight[x].pc \notin {"idle", "returned", "completing"}
                    /\ inflight[x].task.kind = "FACTORY_LOG_FILTER"}}

\* C19: apart from retries of a failed task (same range), no two
\* FACTORY_LOG_FILTER tasks of one factory that are queued or in flight cover
\* a common block.
C19_NoDuplicateFactoryLogWork ==
    \A a, b \in LiveFactoryLogFilterTasks :
        (/\ a.at # b.at
         /\ a.task.source = b.task.source
         /\ <<a.task.fromBlock, a.task.toBlock>> # <<b.task.fromBlock, b.task.toBlock>>)
          => (a.task.fromBlock .. a.task.toBlock)
               \cap (b.task.fromBlock .. b.task.toBlock) = {}

\* Blocks of a factory covered by a FACTORY_LOG_FILTER task that was enqueued:
\* the task is queued, is running, or has completed its range.
FactoryLogBlocksEnqueued(id) ==
    QueuedBlocks("FACTORY_LOG_FILTER", id)
      \cup UNION {inflight[slot].task.fromBlock .. inflight[slot].task.toBlock :
                    slot \in {x \in DOMAIN inflight :
                                /\ inflight[x].pc # "idle"
                                /\ inflight[x].task.kind = "FACTORY_LOG_FILTER"
                                /\ inflight[x].task.source = id}}
      \cup (progressTrackers[<<"factoryLogFilter", id>>].completed
              \ CachedIntervals(cfg, "factoryLogFilter", id))

\* C20: for a factory source (kill() not called), once the child-address
\* tracker has nothing required left, every block the factory-log tracker
\* required at setup is covered by a FACTORY_LOG_FILTER task that was enqueued.
C20_FactoryLogCoverage ==
    (phase \in {"setup", "started"} /\ ~isShuttingDown) =>
        \A source \in {x \in Range(Sources(cfg)) : x.type = "factory"} :
            getRequired(progressTrackers[<<"factoryChildAddress", source.id>>]) = {}
              => (TargetOf(source) \ CachedIntervals(cfg, "factoryLogFilter", source.id))
                    \subseteq FactoryLogBlocksEnqueued(source.id)

\* C20 witness: with two slots, both child-address tasks of a fresh factory
\* have completed and the factory log tasks for the whole range are queued.
C20_Witness ==
    /\ cfg = "factoryFresh"
    /\ concurrency = 2
    /\ phase = "started"
    /\ getRequired(progressTrackers[<<"factoryChildAddress", "F">>]) = {}
    /\ QueuedBlocks("FACTORY_LOG_FILTER", "F") = 0 .. 3

\* The worker in slot finishes a task of the given kind in this step.
Finishes(slot, taskKind) ==
    /\ inflight[slot].pc \notin {"idle", "returned", "completing"}
    /\ inflight[slot].task.kind = taskKind
    /\ inflight'[slot].pc \in {"returned", "completing"}

\* C21: when a FACTORY_CHILD_ADDRESS task finishes and the minimum checkpoint
\* over the trackers with required work exceeds blockTasksEnqueuedCheckpoint,
\* no block at or below that minimum is left in blockCallbacks at the end of
\* the worker's step: each has been turned into a BLOCK task.
C21_ChildAddressWorkerEnqueues ==
    [][\A slot \in DOMAIN inflight :
          (/\ Finishes(slot, "FACTORY_CHILD_ADDRESS")
           /\ blockTasksCanBeEnqueuedTo(progressTrackers') > blockTasksEnqueuedCheckpoint)
            => \A blockNumber \in DOMAIN blockCallbacks' :
                  blockNumber > blockTasksCanBeEnqueuedTo(progressTrackers')]_vars

\* C22: blockTasksEnqueuedCheckpoint is always a finite block number, at most
\* the largest target end of any source.
C22_EnqueuedCheckpointIsFinite ==
    phase \in {"setup", "started", "killed"} =>
        /\ blockTasksEnqueuedCheckpoint < Infinity
        /\ \E key \in DOMAIN progressTrackers :
              blockTasksEnqueuedCheckpoint <= progressTrackers[key].target[2]

\* C23: for every fromBlock <= toBlock and every set of logs in the range,
\* the intervals of buildLogIntervals are contiguous and disjoint, the first
\* starts at fromBlock, the last ends at toBlock, each ends at a block with a
\* log or at toBlock (and every block with a log ends one), and each carries
\* exactly the logs and the transaction hashes of its end block.
C23_LogIntervalsPartition ==
    (applied.fn = "buildLogIntervals" /\ applied.done) =>
        LET intervals == applied.result
            logsAt(blockNumber) == {l \in applied.logs : l.blockNumber = blockNumber}
        IN  /\ intervals # <<>>
            /\ intervals[1].startBlock = applied.fromBlock
            /\ intervals[Len(intervals)].endBlock = applied.toBlock
            /\ \A j \in DOMAIN intervals :
                  /\ intervals[j].startBlock <= intervals[j].endBlock
                  /\ j > 1 => intervals[j].startBlock = intervals[j - 1].endBlock + 1
                  /\ \/ logsAt(intervals[j].endBlock) # {}
                     \/ intervals[j].endBlock = applied.toBlock
                  /\ intervals[j].logs = logsAt(intervals[j].endBlock)
                  /\ intervals[j].transactionHashes =
                        {l.transactionHash : l \in logsAt(intervals[j].endBlock)}
            /\ \A l \in applied.logs :
                  \E j \in DOMAIN intervals : intervals[j].endBlock = l.blockNumber

\* C23 witness: logs in two blocks, two of them in one transaction, none in
\* toBlock: three intervals, the last one empty.
C23_Witness ==
    /\ applied.fn = "buildLogIntervals"
    /\ applied.done
    /\ Len(applied.result) = 3
    /\ applied.result[3].logs = {}
    /\ applied.result[3].transactionHashes = {}
    /\ \E j \in DOMAIN applied.result :
          /\ Cardinality(applied.result[j].logs) = 2
          /\ Cardinality(applied.result[j].transactionHashes) = 1

\* Blocks of [fromBlock, toBlock] a block filter matches.
MatchedBlocks(interval, offset, fromBlock, toBlock) ==
    {n \in fromBlock .. toBlock :
        \E k \in -(offset + toBlock) .. (offset + toBlock) : n - offset = k * interval}

\* C24: for every range and criteria (interval >= 1, offset >= 0, offset above
\* fromBlock included) a BLOCK_FILTER task processes exactly the blocks n of
\* [fromBlock, toBlock] with (n - offset) mod interval = 0, ascending, then
\* toBlock if it is not matched.
C24_BlockFilterMatching ==
    (applied.fn = "blockFilterRequiredBlocks" /\ applied.done) =>
        LET matched == MatchedBlocks(applied.interval, applied.offset,
                                     applied.fromBlock, applied.toBlock)
        IN  applied.result = IF applied.toBlock \in matched THEN SortedSeq(matched)
                             ELSE Append(SortedSeq(matched), applied.toBlock)

\* The interval records of the blocks a BLOCK_FILTER task processes, in order.
BlockFilterRecords(task) ==
    [i \in DOMAIN blockFilterRequiredBlocks(SourceById(task.source), task.fromBlock,
                                            task.toBlock) |->
        Callback("blockFilter", task.source,
                 blockFilterInterval(Worker(task, "getBlock", i)))]

C26_BlockWorkerOrdering ==
    [][/\ \A slot \in DOMAIN inflight :
             LET w == inflight[slot]
             IN  (/\ w.pc \in {"getBlock", "callback"}
                  /\ w.task.kind = "BLOCK"
                  /\ inflight'[slot] # w)
                   => /\ w.pc = "getBlock"
                           => /\ w.i = 1
                              /\ inflight'[slot].pc \in {"callback", "rpcError"}
                              /\ inflight'[slot].i = 1
                              /\ UNCHANGED <<insertCalls, blockProgressTracker>>
                      /\ (w.pc = "callback" /\ inflight'[slot].pc = "rpcError")
                           => UNCHANGED <<insertCalls, blockProgressTracker>>
                      /\ (w.pc = "callback" /\ inflight'[slot].pc # "rpcError")
                           => /\ insertCalls' = insertCalls (+) SetToBag({w.task.callbacks[w.i]})
                              /\ w.i < Len(w.task.callbacks)
                                   => /\ inflight'[slot] = [w EXCEPT !.i = w.i + 1]
                                      /\ UNCHANGED blockProgressTracker
                              /\ w.i = Len(w.task.callbacks)
                                   => /\ inflight'[slot].pc \in {"returned", "completing"}
                                      /\ w.task.blockNumber
                                           \in blockProgressTracker'.completedBlocks
       /\ blockProgressTracker'.completedBlocks # blockProgressTracker.completedBlocks
            => \E slot \in DOMAIN inflight :
                  /\ inflight[slot].pc = "callback"
                  /\ inflight[slot].task.kind = "BLOCK"
                  /\ inflight[slot].i = Len(inflight[slot].task.callbacks)
                  /\ inflight'[slot].pc \in {"returned", "completing"}
                  /\ blockProgressTracker'.completedBlocks =
                        blockProgressTracker.completedBlocks
                          \cup {inflight[slot].task.blockNumber}]_vars

\* C26 witness: a BLOCK task with two callbacks has run both and its block is
\* completed.
C26_Witness ==
    \E slot \in DOMAIN inflight :
        /\ inflight[slot].pc \in {"returned", "completing"}
        /\ inflight[slot].task.kind = "BLOCK"
        /\ Len(inflight[slot].task.callbacks) = 2
        /\ inflight[slot].task.blockNumber \in blockProgressTracker.completedBlocks
        /\ \A i \in 1 .. 2 :
              CopiesIn(inflight[slot].task.callbacks[i], insertCalls) >= 1

\* C27: when eth_getBlockByNumber answers null for the block of a BLOCK task,
\* the task fails in that step: no callback has run, the block is not marked
\* completed and nothing is handed to the debouncer or emitted; onError then
\* puts the task back on the queue with the same block and callbacks, unless
\* the service is shutting down; and every emitted checkpoint is for a block
\* that has completed.
C27_MissingBlockIsAnError ==
    [][/\ \A slot \in DOMAIN inflight :
             blockTaskBlockNotFound(slot)
               => /\ inflight'[slot].pc = "rpcError"
                  /\ inflight[slot].i = 1
                  /\ UNCHANGED <<insertCalls, blockProgressTracker, debounced, emitted>>
       /\ \A slot \in DOMAIN inflight :
             (/\ inflight[slot].pc = "rpcError"
              /\ inflight[slot].task.kind = "BLOCK"
              /\ inflight'[slot].pc = "idle")
               => /\ UNCHANGED <<insertCalls, blockProgressTracker, debounced, emitted>>
                  /\ queue' = IF isShuttingDown THEN queue
                              ELSE Append(queue, BlockTask(inflight[slot].task.blockNumber,
                                                           inflight[slot].task.callbacks))
       /\ emitted' # emitted
            => emitted'[Len(emitted')].blockNumber
                  \in blockProgressTracker.completedBlocks]_vars

\* C27 witness: a BLOCK task whose block was not found is back on the queue;
\* none of its callbacks has run and its block is not completed.
C27_Witness ==
    \E i \in DOMAIN queue :
        /\ queue[i] \in retried
        /\ queue[i].kind = "BLOCK"
        /\ queue[i].blockNumber \notin blockProgressTracker.completedBlocks
        /\ \A j \in DOMAIN queue[i].callbacks :
              CopiesIn(queue[i].callbacks[j], insertCalls) = 0

\* Sources whose start block is above the finalized block.
SkippableSources ==
    {source \in Range(Sources(cfg)) :
        ~validateHistoricalBlockRange(source, Network(cfg).finalizedBlockNumber)
            .isHistoricalSyncRequired}

C29_DebouncedEmission ==
    [][emitted' # emitted
         => /\ emitted' = Append(emitted, clock.lastPassed)
            /\ clock.lastPassed # NoCheckpoint
            /\ \A k \in DOMAIN clock.emittedAt :
                  clock'.now - clock.emittedAt[k] >= HISTORICAL_CHECKPOINT_EMIT_INTERVAL]_vars

\* C29 witness: two checkpoints were emitted, for frontier 1 and, exactly one
\* interval later, for frontier 2.
C29_Witness ==
    /\ Len(clock.emittedAt) = 2
    /\ Len(emitted) = 2
    /\ emitted[1].blockNumber = 1
    /\ emitted[2].blockNumber = 2
    /\ clock.emittedAt[2] - clock.emittedAt[1] = HISTORICAL_CHECKPOINT_EMIT_INTERVAL

\* The block a task is ordered by: blockNumber of a BLOCK task, fromBlock of
\* an interval task.
TaskBlock(task) == IF task.kind = "BLOCK" THEN task.blockNumber ELSE task.fromBlock

\* C30: every task on the queue has priority MAX_SAFE_INTEGER - fromBlock (or
\* - blockNumber), and the task the queue starts is a queued one with the
\* smallest fromBlock/blockNumber, the first added among those; so a
\* re-enqueued failed task runs before queued tasks with larger block numbers.
C30_EarlierBlocksFirst ==
    [][/\ \A i \in DOMAIN queue' :
             queue'[i].priority = MAX_SAFE_INTEGER - TaskBlock(queue'[i])
       /\ \A slot \in DOMAIN inflight :
             (inflight[slot].pc = "idle" /\ inflight'[slot].pc # "idle")
               => \E i \in DOMAIN queue :
                     /\ inflight'[slot].task = queue[i]
                     /\ queue' = RemoveAt(queue, i)
                     /\ \A j \in DOMAIN queue : TaskBlock(queue[j]) >= TaskBlock(queue[i])
                     /\ \A j \in 1 .. (i - 1) : TaskBlock(queue[j]) > TaskBlock(queue[i])]_vars

\* C30 witness: after one failure, the re-enqueued task has been started again
\* while a task with a larger block number that never failed is still queued.
C30_Witness ==
    /\ failures = 1
    /\ \E slot \in DOMAIN inflight :
          /\ inflight[slot].pc \in {"getLogs", "getBlock"}
          /\ inflight[slot].task \in retried
          /\ \E i \in DOMAIN queue :
                /\ queue[i] \notin retried
                /\ TaskBlock(queue[i]) > TaskBlock(inflight[slot].task)
    /\ \A slot \in DOMAIN inflight : inflight[slot].pc \notin {"rpcError", "pendingBlocksError"}

\* Workers that have been started and have not returned or thrown.
Executing(workers) ==
    {slot \in DOMAIN workers :
        workers[slot].pc \in {"getLogs", "getBlock", "insertInterval", "callback",
                              "completing"}}

\* C31: at most maxHistoricalTaskConcurrency tasks are executing at any time
\* (a task is started only in a free slot and a running one is never
\* displaced), and no task runs before start() is called.
C31_BoundedConcurrency ==
    [][/\ Cardinality(Executing(inflight')) <= concurrency
       /\ concurrency <= Network(cfg).maxHistoricalTaskConcurrency
       /\ Cardinality({slot \in DOMAIN inflight' : inflight'[slot].pc # "idle"})
             <= Network(cfg).maxHistoricalTaskConcurrency
       /\ \A slot \in DOMAIN inflight :
             inflight[slot].pc # "idle"
               => \/ inflight'[slot].pc = "idle"
                  \/ inflight'[slot].task = inflight[slot].task
       /\ phase' \in {"constructed", "setup"}
            => \A slot \in DOMAIN inflight' : inflight'[slot].pc = "idle"]_vars

\* C31 witness: with two slots, two tasks are executing and a third waits on
\* the queue.
C31_Witness ==
    /\ concurrency = 2
    /\ Cardinality(Executing(inflight)) = 2
    /\ queue # <<>>

\* Blocks passed to addPendingBlocks in this step and accepted by it.
NewPendingBlocks ==
    {n \in BagToSet(blockTasksCreated') :
        CopiesIn(n, blockTasksCreated') > CopiesIn(n, blockTasksCreated)}

\* C32: on every call of addPendingBlocks made by enqueueBlockTasks, each
\* block number passed is strictly greater than every block number passed in
\* an earlier call of the run (so the call is never rejected).
C32_PendingBlocksPrecondition ==
    [][/\ \A n \in NewPendingBlocks : \A m \in BagToSet(blockTasksCreated) : n > m
       /\ \A slot \in DOMAIN inflight :
             inflight'[slot].pc = "pendingBlocksError"
               => inflight[slot].pc = "pendingBlocksError"]_vars

\* The completed blocks below every block that is still pending.
CompletedPrefix(bpt) ==
    IF bpt.pendingBlocks = <<>> THEN bpt.completedBlocks
    ELSE {n \in bpt.completedBlocks : n < bpt.pendingBlocks[1]}

\* C33: the frontier of the block progress tracker changes only when a BLOCK
\* task completes its block; it never decreases; it changes only when the
\* completed prefix of the pending sequence has grown, to the largest block of
\* that prefix; and once no block is pending it is the largest block that was
\* ever pending, in whatever order the BLOCK tasks completed.
C33_FrontierMonotonic ==
    [][LET before == blockProgressTracker
           after == blockProgressTracker'
       IN  /\ after.frontier # before.frontier
                => /\ \E slot \in DOMAIN inflight :
                         /\ inflight[slot].pc = "callback"
                         /\ inflight[slot].task.kind = "BLOCK"
                         /\ inflight'[slot].pc \in {"returned", "completing"}
                   /\ before.frontier # undefined => after.frontier > before.frontier
                   /\ CompletedPrefix(before) \subseteq CompletedPrefix(after)
                   /\ CompletedPrefix(before) # CompletedPrefix(after)
                   /\ after.frontier = SetMax(CompletedPrefix(after))
                   /\ debounced'.blockNumber = after.frontier
           /\ after.frontier = before.frontier
                => \/ debounced' = debounced
                   \/ debounced' = NoCheckpoint
           /\ (after.pendingBlocks = <<>> /\ after.completedBlocks # {})
                => after.frontier = SetMax(BagToSet(blockTasksCreated'))]_vars

\* C33 witness: with two slots a later block has completed while an earlier
\* one is still pending: the frontier has not moved past the pending block.
C33_Witness ==
    /\ blockProgressTracker.pendingBlocks # <<>>
    /\ \E n \in blockProgressTracker.completedBlocks :
          n > blockProgressTracker.pendingBlocks[1]
    /\ \/ blockProgressTracker.frontier = undefined
       \/ blockProgressTracker.frontier < blockProgressTracker.pendingBlocks[1]

\* C34: an attempt of an interval task that throws at one of its RPC or store
\* calls leaves blockCallbacks and the progress trackers as they were before
\* the attempt: the worker changes them in no step before its last call has
\* returned (so a BLOCK_FILTER task that fails at a later call of its loop
\* has registered no callback that the retry registers again).
C34_NoResidue ==
    [][\A slot \in DOMAIN inflight :
          (/\ inflight'[slot] # inflight[slot]
           /\ inflight'[slot].pc \in {"getLogs", "getBlock", "insertInterval", "rpcError"}
           /\ inflight'[slot].task.kind \in {"LOG_FILTER", "FACTORY_CHILD_ADDRESS",
                                            "FACTORY_LOG_FILTER", "BLOCK_FILTER"})
            => UNCHANGED <<blockCallbacks, progressTrackers>>]_vars

\* C35: after kill() followed by setup() the orchestrator is in the state of
\* a fresh instance after setup(): the shutdown flag is false,
\* blockTasksEnqueuedCheckpoint is 0, blockCallbacks is empty, the block
\* progress tracker has no pending or completed blocks, and the queue holds
\* only the tasks this setup() enqueued.
C35_RestartResets ==
    (applied.fn = "restart" /\ applied.calls > 0 /\ phase = "setup") =>
        /\ ~isShuttingDown
        /\ blockTasksEnqueuedCheckpoint = 0
        /\ blockCallbacks = <<>>
        /\ blockProgressTracker.pendingBlocks = <<>>
        /\ blockProgressTracker.completedBlocks = {}
        /\ queue = applied.enqueued

\* The callbacks registered before are all still registered after, in place.
CallbacksKept(before, after) ==
    \A blockNumber \in DOMAIN before :
        /\ blockNumber \in DOMAIN after
        /\ Len(after[blockNumber]) >= Len(before[blockNumber])
        /\ SubSeq(after[blockNumber], 1, Len(before[blockNumber])) = before[blockNumber]

BlockTasksOf(q) == {i \in DOMAIN q : q[i].kind = "BLOCK"}

\* The worker in slot ends its task with a call of enqueueBlockTasks.
CallsEnqueueBlockTasks(slot) ==
    \E taskKind \in {"LOG_FILTER", "FACTORY_LOG_FILTER", "BLOCK_FILTER"} :
        Finishes(slot, taskKind)

\* C36: blockTasksEnqueuedCheckpoint never decreases from setup() to the end
\* of the run, and a call of enqueueBlockTasks whose canEnqueueUpTo is not
\* greater than blockTasksEnqueuedCheckpoint leaves the checkpoint as it is,
\* removes nothing from blockCallbacks and creates no BLOCK task.
C36_EnqueuedCheckpointMonotonic ==
    [][/\ blockTasksEnqueuedCheckpoint' >= blockTasksEnqueuedCheckpoint
       /\ \A slot \in DOMAIN inflight :
             (/\ CallsEnqueueBlockTasks(slot)
              /\ ~(blockTasksCanBeEnqueuedTo(progressTrackers')
                     > blockTasksEnqueuedCheckpoint))
               => /\ blockTasksEnqueuedCheckpoint' = blockTasksEnqueuedCheckpoint
                  /\ CallbacksKept(blockCallbacks, blockCallbacks')
                  /\ Cardinality(BlockTasksOf(queue')) = Cardinality(BlockTasksOf(queue))
                  /\ blockTasksCreated' = blockTasksCreated]_vars

\* A worker has ended with a call of enqueueBlockTasks that found the
\* checkpoint already at or above the block of a registered callback and left
\* the callback where it was (one slot, so nothing else has run since).
C36_Witness ==
    /\ phase = "started"
    /\ concurrency = 1
    /\ \E slot \in DOMAIN inflight :
          /\ inflight[slot].pc \in {"returned", "completing"}
          /\ inflight[slot].task.kind \in {"LOG_FILTER", "FACTORY_LOG_FILTER", "BLOCK_FILTER"}
    /\ blockTasksEnqueuedCheckpoint > 0
    /\ \E blockNumber \in DOMAIN blockCallbacks :
          blockNumber <= blockTasksEnqueuedCheckpoint

====
